---- MODULE Spec2Model ----
(***************************************************************************)
(* Reddit-Realtime-Analytics: the HBase tables written by HBaseManager and *)
(* the read-only analytics of RedditAnalytics over them.                   *)
(*                                                                         *)
(* A table is a function from row keys to rows; a row is a function from   *)
(* the column names it holds to cell strings (HBase stores bytes, and      *)
(* to_dataframe decodes every key, column and value back to a string).     *)
(*                                                                         *)
(* Numbers: every score is an integer.  get_user_influence mixes 1.0 and   *)
(* 0.5 weights with 100 * betweenness centrality; its totals are kept      *)
(* exactly, as integers in units of 1/Unit.  For reply graphs of at most   *)
(* four nodes every total is a whole number of such units.                 *)
(***************************************************************************)
EXTENDS Integers, Sequences, FiniteSets, TLC

VARIABLES posts, comments, ret

vars == <<posts, comments, ret>>

(***************************************************************************)
(* Bounds of the model.                                                    *)
(***************************************************************************)
MaxScore == 3
SmallLimit == 2

SmallNumTopics == 2

(***************************************************************************)
(* Python values.                                                          *)
(***************************************************************************)
\* the float NaN pandas puts in a DataFrame cell whose row lacks the column
NaN == "<NaN>"

Digits == <<"0", "1", "2", "3", "4", "5", "6", "7", "8", "9">>

RECURSIVE NatStr(_)
NatStr(n) == IF n < 10 THEN Digits[n + 1]
             ELSE NatStr(n \div 10) \o Digits[(n % 10) + 1]

\* str(x) of an int; str() of a str is that str, so the ids, which PRAW gives
\* as strings, are written as they are
Str(x) == IF x < 0 THEN "-" \o NatStr(0 - x) ELSE NatStr(x)

\* str(x) of a float with no fractional part, as PRAW's created_utc is
FloatStr(x) == Str(x) \o ".0"

\* the integers whose decimal form float() is asked to read in this model
NumRange == (0 - 2 * MaxScore - 2)..(2 * MaxScore + 2)

IsNumeric(s) == \E i \in NumRange : Str(i) = s

\* float(s) of a numeric string (the caller raises ValueError otherwise)
Float(s) == CHOOSE i \in NumRange : Str(i) = s

\* dict.get(key, default)
Get(d, k, default) == IF k \in DOMAIN d THEN d[k] ELSE default

\* a test that also drops the removed-account sentinel
TruthyAndNotDeleted(v) == v # "" /\ v # "[deleted]"

\* truthiness of a cell: the empty string is falsy, NaN and any text are truthy
Truthy(v) == v # ""


(***************************************************************************)
(* HBaseManager: the two tables and their writers.                         *)
(***************************************************************************)
\* Config.HBASE_TABLE_PREFIX + 'posts' rows are keyed post_<id>,
\* Config.HBASE_TABLE_PREFIX + 'comments' rows comment_<id>_post_<post_id>
PostRowKey(id) == "post_" \o id

CommentRowKey(id, post_id) == "comment_" \o id \o "_post_" \o post_id

\* ids in byte order; p0 and c0 key the rows already in the store at start-up
AllPostIds == <<"p0", "p1", "p2">>

AllCommentIds == <<"c0", "c1", "c2", "c3">>

\* table.scan() yields rows in ascending row-key order
PostScanOrder == [i \in 1..Len(AllPostIds) |-> PostRowKey(AllPostIds[i])]

CommentScanOrder ==
    [i \in 1..(Len(AllCommentIds) * Len(AllPostIds)) |->
        CommentRowKey(AllCommentIds[((i - 1) \div Len(AllPostIds)) + 1],
                      AllPostIds[((i - 1) % Len(AllPostIds)) + 1])]

ScanOrder(table_name) ==
    IF table_name = "posts" THEN PostScanOrder ELSE CommentScanOrder

\* table.put(row_key, data): cells of data replace the row's cells of the same
\* column (max_versions=1); the row's other cells stay
Put(table, row_key, data) ==
    [k \in (DOMAIN table) \cup {row_key} |->
        IF k = row_key
        THEN (IF row_key \in DOMAIN table THEN data @@ table[row_key] ELSE data)
        ELSE table[k]]

\* HBaseManager.store_post: the cells written for a post dict
PostData(post) ==
    [c \in {"post_data:id", "post_data:title", "post_data:selftext",
            "post_data:subreddit", "post_data:author", "post_data:created_utc",
            "metrics:score", "metrics:ups", "metrics:downs",
            "metrics:num_comments"} |->
        CASE c = "post_data:id" -> post["id"]
          [] c = "post_data:title" -> post["title"]
          [] c = "post_data:selftext" -> Get(post, "selftext", "")
          [] c = "post_data:subreddit" -> post["subreddit"]
          [] c = "post_data:author" -> Get(post, "author", "")
          [] c = "post_data:created_utc" -> FloatStr(post["created_utc"])
          [] c = "metrics:score" -> Str(Get(post, "score", 0))
          [] c = "metrics:ups" -> Str(Get(post, "ups", 0))
          [] c = "metrics:downs" -> Str(Get(post, "downs", 0))
          [] OTHER -> Str(Get(post, "num_comments", 0))]

\* HBaseManager.store_comment: the cells written for a comment dict
CommentData(comment, post_id) ==
    [c \in {"comment_data:id", "comment_data:post_id", "comment_data:text",
            "comment_data:author", "comment_data:created_utc",
            "comment_data:parent_id", "metrics:score", "metrics:ups",
            "metrics:downs"} |->
        CASE c = "comment_data:id" -> comment["id"]
          [] c = "comment_data:post_id" -> post_id
          [] c = "comment_data:text" -> comment["body"]
          [] c = "comment_data:author" -> Get(comment, "author", "")
          [] c = "comment_data:created_utc" -> FloatStr(comment["created_utc"])
          [] c = "comment_data:parent_id" -> Get(comment, "parent_id", "")
          [] c = "metrics:score" -> Str(Get(comment, "score", 0))
          [] c = "metrics:ups" -> Str(Get(comment, "ups", 0))
          [] OTHER -> Str(Get(comment, "downs", 0))]

\* no analytics call has returned since the last write
NoCall == [op |-> "none", status |-> "ok"]

store_post(post) ==
    /\ posts' = Put(posts, PostRowKey(post["id"]), PostData(post))
    /\ ret' = NoCall
    /\ UNCHANGED comments

store_comment(comment, post_id) ==
    /\ comments' = Put(comments, CommentRowKey(comment["id"], post_id),
                       CommentData(comment, post_id))
    /\ ret' = NoCall
    /\ UNCHANGED posts

(***************************************************************************)
(* RedditAnalytics.to_dataframe: one DataFrame row per scanned table row,  *)
(* as the mapping of row_key and of every column the row holds.  The       *)
(* DataFrame's columns are all columns any row holds; a cell whose row     *)
(* lacks the column reads NaN.                                             *)
(***************************************************************************)
to_dataframe(table, table_name) ==
    LET keys == SelectSeq(ScanOrder(table_name), LAMBDA k : k \in DOMAIN table)
    IN  [i \in 1..Len(keys) |-> ("row_key" :> keys[i]) @@ table[keys[i]]]

Empty(df) == Len(df) = 0

Columns(df) == UNION {DOMAIN df[i] : i \in 1..Len(df)}

Cell(df, i, col) == IF col \in DOMAIN df[i] THEN df[i][col] ELSE NaN

(***************************************************************************)
(* RedditAnalytics.get_user_influence.                                     *)
(***************************************************************************)
\* totals are whole numbers of 1/Unit
Unit == 2 * 6

\* comments weighted like posts
CommentWeightAsPost == Unit

\* the weight of a comment's score, score * 0.5, in units
CommentWeight == Unit \div 2

\* centrality[node] * 100
CentralityFactor == 100

DefaultLimit == 5

\* the influence dict, in insertion order: a sequence of <<author, total>>
InfluenceKeys(influence) == {influence[i][1] : i \in 1..Len(influence)}

\* influence[key] = influence.get(key, 0) + amount
InfluenceAdd(influence, key, amount) ==
    IF key \in InfluenceKeys(influence)
    THEN [i \in 1..Len(influence) |->
            IF influence[i][1] = key
            THEN <<key, influence[i][2] + amount>>
            ELSE influence[i]]
    ELSE Append(influence, <<key, amount>>)

\* the two score loops: rows i..len(df) of df, author read from author_col,
\* each score weighed by weight; acc is the exception raised so far ("" for
\* none) and the influence dict
RECURSIVE ScoreLoop(_, _, _, _, _)
ScoreLoop(df, i, author_col, weight, acc) ==
    IF i > Len(df) \/ acc.err # "" THEN acc
    ELSE IF author_col \notin Columns(df) \/ "metrics:score" \notin Columns(df)
    THEN [acc EXCEPT !.err = "KeyError"]
    ELSE LET author == Cell(df, i, author_col)
             cell == Cell(df, i, "metrics:score")
         IN  IF cell = NaN THEN [acc EXCEPT !.err = "NaNScore"]
             ELSE IF ~IsNumeric(cell) THEN [acc EXCEPT !.err = "ValueError"]
             ELSE ScoreLoop(df, i + 1, author_col, weight,
                    IF Truthy(author)
                    THEN [acc EXCEPT !.influence =
                            InfluenceAdd(@, author, Float(cell) * weight)]
                    ELSE acc)

\* the comment ids a parent_id can name after its three-character prefix
RefIds == {AllCommentIds[i] : i \in 1..Len(AllCommentIds)}
              \cup {AllPostIds[i] : i \in 1..Len(AllPostIds)}

\* parent_id.startswith('t1_')
StartsWithT1(parent_id) == \E id \in RefIds : "t1_" \o id = parent_id

\* parent_id[3:] of a parent_id that starts with t1_
Tail3(parent_id) == CHOOSE id \in RefIds : "t1_" \o id = parent_id

EmptyGraph == [nodes |-> <<>>, edges |-> {}]

SeqAddNew(seq, x) ==
    IF \E i \in 1..Len(seq) : seq[i] = x THEN seq ELSE Append(seq, x)

\* the edge drawn from the parent to the reply
add_edge_reversed(G, u, v) ==
    [nodes |-> SeqAddNew(SeqAddNew(G.nodes, u), v),
     edges |-> G.edges \cup {<<v, u>>}]

\* nx.DiGraph.add_edge(u, v): u then v become nodes if they are not yet
add_edge(G, u, v) ==
    [nodes |-> SeqAddNew(SeqAddNew(G.nodes, u), v),
     edges |-> G.edges \cup {<<u, v>>}]

\* comments_df[comments_df['comment_data:id'] == id]: the matching row numbers
RowsWithId(df, id) == {j \in 1..Len(df) : Cell(df, j, "comment_data:id") = id}

Min(S) == CHOOSE x \in S : \A y \in S : x <= y

\* the reply-graph loop over rows i..len(df); acc is the exception raised so
\* far and the graph
RECURSIVE GraphLoop(_, _, _)
GraphLoop(df, i, acc) ==
    IF i > Len(df) \/ acc.err # "" THEN acc
    ELSE IF "comment_data:author" \notin Columns(df)
            \/ "comment_data:parent_id" \notin Columns(df)
    THEN [acc EXCEPT !.err = "KeyError"]
    ELSE LET author == Cell(df, i, "comment_data:author")
             parent_id == Cell(df, i, "comment_data:parent_id")
         IN  IF ~(Truthy(author) /\ Truthy(parent_id))
             THEN GraphLoop(df, i + 1, acc)
             ELSE IF parent_id = NaN
             THEN [acc EXCEPT !.err = "AttributeError"]
             ELSE IF ~StartsWithT1(parent_id)
             THEN GraphLoop(df, i + 1, acc)
             ELSE IF "comment_data:id" \notin Columns(df)
             THEN [acc EXCEPT !.err = "KeyError"]
             ELSE LET parent_author == RowsWithId(df, Tail3(parent_id))
                  IN  IF parent_author = {}
                      THEN GraphLoop(df, i + 1, acc)
                      ELSE GraphLoop(df, i + 1,
                             [acc EXCEPT !.G =
                                add_edge(@, author,
                                    Cell(df, Min(parent_author),
                                         "comment_data:author"))])

(***************************************************************************)
(* nx.betweenness_centrality(G) of a directed, unweighted graph, with its  *)
(* defaults normalized=True, endpoints=False: for every node v the sum,    *)
(* over the ordered pairs s, t of other nodes joined by a path, of the     *)
(* share of shortest s-t paths through v, times 1/((n-1)(n-2)) when the    *)
(* graph has n > 2 nodes.                                                  *)
(***************************************************************************)
NodeSet(G) == {G.nodes[i] : i \in 1..Len(G.nodes)}

\* the paths from s to t that repeat no node
SimplePaths(G, s, t) ==
    {p \in UNION {[1..k -> NodeSet(G)] : k \in 2..Cardinality(NodeSet(G))} :
        /\ p[1] = s
        /\ p[Len(p)] = t
        /\ \A i, j \in 1..Len(p) : i # j => p[i] # p[j]
        /\ \A i \in 1..(Len(p) - 1) : <<p[i], p[i + 1]>> \in G.edges}

ShortestPaths(G, s, t) ==
    LET ps == SimplePaths(G, s, t)
    IN  {p \in ps : \A q \in ps : Len(p) <= Len(q)}

RECURSIVE SumOver(_, _)
SumOver(S, f) ==
    IF S = {} THEN 0
    ELSE LET x == CHOOSE y \in S : TRUE
         IN  f[x] + SumOver(S \ {x}, f)

\* betweenness that also counts the paths v starts or ends (endpoints=True)
betweenness_centrality_endpoints(G, v) ==
    LET n == Cardinality(NodeSet(G))
        norm == IF n > 2 THEN (n - 1) * (n - 2) ELSE 1
        pairs == {st \in NodeSet(G) \X NodeSet(G) :
                    /\ st[1] # st[2]
                    /\ ShortestPaths(G, st[1], st[2]) # {}}
        share == [st \in pairs |->
                    LET sp == ShortestPaths(G, st[1], st[2])
                        through == {p \in sp : \E i \in 1..Len(p) : p[i] = v}
                    IN  (Unit * Cardinality(through))
                            \div (Cardinality(sp) * norm)]
    IN  SumOver(pairs, share)

\* centrality[v], in units
betweenness_centrality(G, v) ==
    LET n == Cardinality(NodeSet(G))
        norm == IF n > 2 THEN (n - 1) * (n - 2) ELSE 1
        pairs == {st \in NodeSet(G) \X NodeSet(G) :
                    /\ st[1] # st[2] /\ st[1] # v /\ st[2] # v
                    /\ ShortestPaths(G, st[1], st[2]) # {}}
        share == [st \in pairs |->
                    LET sp == ShortestPaths(G, st[1], st[2])
                        through == {p \in sp : \E i \in 1..Len(p) : p[i] = v}
                    IN  (Unit * Cardinality(through))
                            \div (Cardinality(sp) * norm)]
    IN  SumOver(pairs, share)

\* for node in centrality: influence[node] = influence.get(node, 0)
\*                                            + centrality[node] * 100
RECURSIVE CentralityLoop(_, _, _)
CentralityLoop(G, i, influence) ==
    IF i > Len(G.nodes) THEN influence
    ELSE CentralityLoop(G, i + 1,
            InfluenceAdd(influence, G.nodes[i],
                         betweenness_centrality(G, G.nodes[i]) * CentralityFactor))

\* descending, but items of equal total in reverse order: sorted(...)[::-1]
SortedDescTiesReversed(items) ==
    LET rank(i) == Cardinality({j \in 1..Len(items) :
                       \/ items[j][2] > items[i][2]
                       \/ (items[j][2] = items[i][2] /\ j > i)}) + 1
    IN  [r \in 1..Len(items) |->
            items[CHOOSE i \in 1..Len(items) : rank(i) = r]]

\* ascending: reverse=True forgotten
SortedAsc(items) ==
    LET rank(i) == Cardinality({j \in 1..Len(items) :
                       \/ items[j][2] < items[i][2]
                       \/ (items[j][2] = items[i][2] /\ j < i)}) + 1
    IN  [r \in 1..Len(items) |->
            items[CHOOSE i \in 1..Len(items) : rank(i) = r]]

\* sorted(items, key=lambda x: x[1], reverse=True): descending by total, and
\* stable: items of equal total keep their order
SortedDesc(items) ==
    LET rank(i) == Cardinality({j \in 1..Len(items) :
                       \/ items[j][2] > items[i][2]
                       \/ (items[j][2] = items[i][2] /\ j < i)}) + 1
    IN  [r \in 1..Len(items) |->
            items[CHOOSE i \in 1..Len(items) : rank(i) = r]]

\* seq[:limit] for limit >= 0
Truncate(seq, limit) == SubSeq(seq, 1, IF limit < Len(seq) THEN limit ELSE Len(seq))

\* the value get_user_influence returns, or the exception it raises; G is the
\* reply graph it built on the way
get_user_influence_result(posts_df, comments_df, limit) ==
    IF Empty(posts_df) /\ Empty(comments_df)
    THEN [status |-> "ok", value |-> <<>>, G |-> EmptyGraph]
    ELSE LET a1 == IF ~Empty(posts_df)
                   THEN ScoreLoop(posts_df, 1, "post_data:author", Unit,
                                  [err |-> "", influence |-> <<>>])
                   ELSE [err |-> "", influence |-> <<>>]
             a2 == IF ~Empty(comments_df)
                   THEN ScoreLoop(comments_df, 1, "comment_data:author",
                                  CommentWeight, a1)
                   ELSE a1
             g == IF a2.err = "" /\ ~Empty(comments_df)
                  THEN GraphLoop(comments_df, 1, [err |-> "", G |-> EmptyGraph])
                  ELSE [err |-> a2.err, G |-> EmptyGraph]
         IN  IF g.err # ""
             THEN [status |-> g.err, value |-> <<>>, G |-> g.G]
             ELSE LET influence == IF Len(g.G.nodes) > 0
                                   THEN CentralityLoop(g.G, 1, a2.influence)
                                   ELSE a2.influence
                  IN  [status |-> "ok",
                       value |-> Truncate(SortedDesc(influence), limit),
                       G |-> g.G]

\* an influence dict kept on the instance: the totals of the call before
\* are still in it when the next call adds its own
get_user_influence_keeping_influence(limit) ==
    LET fresh == get_user_influence_result(to_dataframe(posts, "posts"),
                                           to_dataframe(comments, "comments"),
                                           limit)
        kept == IF ret.op = "get_user_influence" /\ ret.status = "ok"
                THEN ret.value ELSE <<>>
        before(key) ==
            IF key \in InfluenceKeys(kept)
            THEN kept[CHOOSE i \in 1..Len(kept) : kept[i][1] = key][2]
            ELSE 0
    IN  /\ ret' = [op |-> "get_user_influence", limit |-> limit] @@
                  [fresh EXCEPT !.value =
                      [i \in 1..Len(@) |-> <<@[i][1], @[i][2] + before(@[i][1])>>]]
        /\ UNCHANGED <<posts, comments>>

get_user_influence(limit) ==
    /\ ret' = [op |-> "get_user_influence", limit |-> limit] @@
              get_user_influence_result(to_dataframe(posts, "posts"),
                                        to_dataframe(comments, "comments"), limit)
    /\ UNCHANGED <<posts, comments>>

(***************************************************************************)
(* RedditAnalytics.get_top_subreddits / get_top_authors:                   *)
(* df[col].value_counts().head(limit).items().  value_counts leaves NaN    *)
(* out, counts every other value (the empty string too), and orders by     *)
(* count, descending; values of equal count stay in first-seen order.      *)
(***************************************************************************)
\* the values of column col that are not NaN, in row order
DropNa(df, col) ==
    LET rows == SelectSeq([i \in 1..Len(df) |-> i],
                          LAMBDA i : Cell(df, i, col) # NaN)
    IN  [k \in 1..Len(rows) |-> Cell(df, rows[k], col)]

RECURSIVE Distinct(_)
Distinct(seq) ==
    IF Len(seq) = 0 THEN <<>>
    ELSE SeqAddNew(Distinct(SubSeq(seq, 1, Len(seq) - 1)), seq[Len(seq)])

Count(seq, x) == Cardinality({i \in 1..Len(seq) : seq[i] = x})

\* the counts in first-seen order: sort=False
value_counts_unsorted(df, col) ==
    LET vals == DropNa(df, col)
        keys == Distinct(vals)
    IN  [k \in 1..Len(keys) |-> <<keys[k], Count(vals, keys[k])>>]

value_counts(df, col) ==
    LET vals == DropNa(df, col)
        keys == Distinct(vals)
    IN  SortedDesc([k \in 1..Len(keys) |-> <<keys[k], Count(vals, keys[k])>>])

top_values_result(df, col, limit) ==
    IF Empty(df) THEN [status |-> "ok", value |-> <<>>]
    ELSE IF col \notin Columns(df) THEN [status |-> "KeyError", value |-> <<>>]
    ELSE [status |-> "ok", value |-> Truncate(value_counts(df, col), limit)]

get_top_subreddits(limit) ==
    /\ ret' = [op |-> "get_top_subreddits", limit |-> limit] @@
              top_values_result(to_dataframe(posts, "posts"),
                                "post_data:subreddit", limit)
    /\ UNCHANGED <<posts, comments>>

get_top_authors(limit) ==
    /\ ret' = [op |-> "get_top_authors", limit |-> limit] @@
              top_values_result(to_dataframe(posts, "posts"),
                                "post_data:author", limit)
    /\ UNCHANGED <<posts, comments>>

(***************************************************************************)
(* RedditAnalytics.get_engagement_metrics.  A mean is kept exactly, as     *)
(* <<sum, count>> of the cells averaged.                                   *)
(***************************************************************************)
RECURSIVE SeqSum(_)
SeqSum(seq) == IF Len(seq) = 0 THEN 0
               ELSE SeqSum(SubSeq(seq, 1, Len(seq) - 1)) + Float(seq[Len(seq)])

\* df[col].astype(float).mean(): a KeyError without the column, a ValueError
\* on a cell that is no number; NaN cells are left out of the mean
ColumnMean(df, col) ==
    IF col \notin Columns(df) THEN [status |-> "KeyError", mean |-> <<0, 1>>]
    ELSE LET vals == DropNa(df, col)
         IN  IF \E i \in 1..Len(vals) : ~IsNumeric(vals[i])
             THEN [status |-> "ValueError", mean |-> <<0, 1>>]
             ELSE [status |-> "ok", mean |-> <<SeqSum(vals), Len(vals)>>]

get_engagement_metrics_result(df) ==
    IF Empty(df)
    THEN [status |-> "ok", avg_score |-> <<0, 1>>, avg_comments |-> <<0, 1>>]
    ELSE LET sc == ColumnMean(df, "metrics:score")
             nc == ColumnMean(df, "metrics:num_comments")
         IN  [status |-> IF sc.status # "ok" THEN sc.status ELSE nc.status,
              avg_score |-> sc.mean, avg_comments |-> nc.mean]

get_engagement_metrics ==
    /\ ret' = [op |-> "get_engagement_metrics"] @@
              get_engagement_metrics_result(to_dataframe(posts, "posts"))
    /\ UNCHANGED <<posts, comments>>

(***************************************************************************)
(* RedditAnalytics.get_sentiment_trends.  TextBlob's polarity is a lexicon *)
(* lookup; it is given here for the texts of this model, in tenths.        *)
(***************************************************************************)
Polarity(text) ==
    CASE text = "great news" -> 8
      [] text = "terrible" -> 0 - 10
      [] OTHER -> 0

\* the bucket counts after classifying texts[i..], from counts
RECURSIVE Classify(_, _, _)
Classify(texts, i, sentiment) ==
    IF i > Len(texts) THEN sentiment
    ELSE Classify(texts, i + 1,
            IF Polarity(texts[i]) > 0
            THEN [sentiment EXCEPT !.positive = @ + 1]
            ELSE IF Polarity(texts[i]) < 0
            THEN [sentiment EXCEPT !.negative = @ + 1]
            ELSE [sentiment EXCEPT !.neutral = @ + 1])

\* the texts that are there and are not empty
TextsNonEmpty(df, text_col) ==
    IF text_col \in Columns(df)
    THEN SelectSeq(DropNa(df, text_col), LAMBDA v : v # "")
    ELSE <<>>

\* the texts of one DataFrame that are classified
Texts(df, text_col) ==
    IF text_col \in Columns(df) THEN DropNa(df, text_col) ELSE <<>>

\* the counts divided by the number of records, classified or not
get_sentiment_trends_result_by_rows(posts_df, comments_df) ==
    LET zero == [positive |-> 0, neutral |-> 0, negative |-> 0]
    IN  IF Empty(posts_df) /\ Empty(comments_df)
        THEN [status |-> "ok", value |-> zero, total |-> 0]
        ELSE [status |-> "ok",
              value |-> Classify(Texts(comments_df, "comment_data:text"), 1,
                           Classify(Texts(posts_df, "post_data:title"), 1, zero)),
              total |-> Len(posts_df) + Len(comments_df)]

\* each returned value is count / total, kept as the count with the total
\* beside it; total = 0 stands for the raw counts, returned as they are
get_sentiment_trends_result(posts_df, comments_df) ==
    LET zero == [positive |-> 0, neutral |-> 0, negative |-> 0]
    IN  IF Empty(posts_df) /\ Empty(comments_df)
        THEN [status |-> "ok", value |-> zero, total |-> 0]
        ELSE LET sentiment ==
                     Classify(Texts(comments_df, "comment_data:text"), 1,
                        Classify(Texts(posts_df, "post_data:title"), 1, zero))
             IN  [status |-> "ok", value |-> sentiment,
                  total |-> sentiment.positive + sentiment.neutral
                                + sentiment.negative]

get_sentiment_trends ==
    /\ ret' = [op |-> "get_sentiment_trends"] @@
              get_sentiment_trends_result(to_dataframe(posts, "posts"),
                                          to_dataframe(comments, "comments"))
    /\ UNCHANGED <<posts, comments>>

(***************************************************************************)
(* RedditAnalytics.get_topics.  CountVectorizer(stop_words='english',      *)
(* max_df=0.95, min_df=2) lower-cases a title, takes its words of two or   *)
(* more characters and drops the English stop words; Tokens gives the      *)
(* outcome for the titles of this model.  The fitted LDA components are a  *)
(* function of the count matrix, n_components and random_state=42; the     *)
(* model keeps them symbolic.                                              *)
(***************************************************************************)
Tokens(title) ==
    CASE title = "hello" -> {"hello"}
      [] title = "great news" -> {"great", "news"}
      [] title = "terrible" -> {"terrible"}
      [] title = "terrible news" -> {"terrible", "news"}
      [] title = "edited" -> {"edited"}
      [] OTHER -> {}

MaxDfPercent == 95

MinDf == 2

DefaultNumTopics == 5

\* random_state=None: the fit draws from the global generator, which the fit
\* before it has advanced
random_state_unset ==
    IF ret.op = "get_topics" /\ Len(ret.value) > 0
    THEN (ret.value[1].random_state + 1) % 2
    ELSE 0

\* LatentDirichletAllocation(..., random_state=42)
random_state == 42

get_topics_result(df, num_topics) ==
    IF "post_data:title" \notin Columns(df) \/ Empty(df)
    THEN [status |-> "ok", value |-> <<>>]
    ELSE LET docs == DropNa(df, "post_data:title")
             n_doc == Len(docs)
             vocabulary == UNION {Tokens(docs[i]) : i \in 1..n_doc}
             dfs(t) == Cardinality({i \in 1..n_doc : t \in Tokens(docs[i])})
             kept == {t \in vocabulary :
                        /\ 100 * dfs(t) <= MaxDfPercent * n_doc
                        /\ dfs(t) >= MinDf}
         IN  IF vocabulary = {}
             THEN [status |-> "ValueError", value |-> <<>>]
             ELSE IF MaxDfPercent * n_doc < 100 * MinDf
             THEN [status |-> "ValueError", value |-> <<>>]
             ELSE IF kept = {}
             THEN [status |-> "ValueError", value |-> <<>>]
             ELSE IF n_doc = 0
             THEN [status |-> "ok", value |-> <<>>]
             ELSE [status |-> "ok",
                   value |-> <<[lda |-> num_topics, random_state |-> random_state,
                                features |-> kept,
                                X |-> [i \in 1..n_doc |-> Tokens(docs[i]) \cap kept]]>>]

get_topics(num_topics) ==
    /\ ret' = [op |-> "get_topics", num_topics |-> num_topics] @@
              get_topics_result(to_dataframe(posts, "posts"), num_topics)
    /\ UNCHANGED <<posts, comments>>

(***************************************************************************)
(* RedditAnalytics.get_temporal_trends.  pd.to_datetime(col, unit='s')     *)
(* reads each cell as seconds since 1970-01-01T00:00Z, a Thursday; a NaN   *)
(* cell becomes NaT and value_counts leaves it out.                        *)
(***************************************************************************)
\* the created_utc values of this model
Timestamps == {0, 3600, 86400, 262800}

ParseSeconds(s) == CHOOSE t \in Timestamps : FloatStr(t) = s

DayNames == <<"Monday", "Tuesday", "Wednesday", "Thursday", "Friday",
              "Saturday", "Sunday">>

\* the day name with the epoch taken for a Monday
day_name_epoch_monday(t) == DayNames[((t \div 86400) % 7) + 1]

day_name(t) == DayNames[(((t \div 86400) + 3) % 7) + 1]

hour(t) == (t % 86400) \div 3600

\* Series.value_counts().to_dict() of the values vals
CountsDict(vals) ==
    LET keys == {vals[i] : i \in 1..Len(vals)}
    IN  [k \in keys |-> Cardinality({i \in 1..Len(vals) : vals[i] = k})]

\* every day and every hour a key, with 0 where no post falls
get_temporal_trends_result_zero_filled(df) ==
    LET cells == IF "post_data:created_utc" \in Columns(df)
                 THEN DropNa(df, "post_data:created_utc") ELSE <<>>
        datetime == [i \in 1..Len(cells) |-> ParseSeconds(cells[i])]
    IN  [status |-> "ok",
         value |-> [by_day |->
                       [d \in {DayNames[i] : i \in 1..Len(DayNames)} |->
                           Cardinality({i \in 1..Len(datetime) :
                                           day_name(datetime[i]) = d})],
                    by_hour |->
                       [h \in 0..23 |->
                           Cardinality({i \in 1..Len(datetime) :
                                           hour(datetime[i]) = h})]]]

get_temporal_trends_result(df) ==
    IF "post_data:created_utc" \notin Columns(df) \/ Empty(df)
    THEN [status |-> "ok", value |-> <<>>]
    ELSE LET cells == DropNa(df, "post_data:created_utc")
             datetime == [i \in 1..Len(cells) |-> ParseSeconds(cells[i])]
         IN  [status |-> "ok",
              value |-> [by_day |->
                            CountsDict([i \in 1..Len(datetime) |->
                                            day_name(datetime[i])]),
                         by_hour |->
                            CountsDict([i \in 1..Len(datetime) |->
                                            hour(datetime[i])])]]

\* the derived datetime column put back into the table
get_temporal_trends_writing_back ==
    /\ ret' = [op |-> "get_temporal_trends"] @@
              get_temporal_trends_result(to_dataframe(posts, "posts"))
    /\ posts' = [k \in DOMAIN posts |->
                    ("post_data:datetime" :> "derived") @@ posts[k]]
    /\ UNCHANGED comments

get_temporal_trends ==
    /\ ret' = [op |-> "get_temporal_trends"] @@
              get_temporal_trends_result(to_dataframe(posts, "posts"))
    /\ UNCHANGED <<posts, comments>>

(***************************************************************************)
(* The dicts fetch_and_store_data hands to the stores.  A PRAW author is a *)
(* name or, for a removed account, '[deleted]'; a dict without the author  *)
(* key is stored with the empty author that store_post and store_comment   *)
(* default to.                                                             *)
(***************************************************************************)
\* NoAuthor stands for a dict without the author key
NoAuthor == "<no author key>"

Authors == {"alice", "[deleted]", NoAuthor}

WithAuthor(d, author) == IF author = NoAuthor THEN d ELSE ("author" :> author) @@ d

PostDict(id, author, score, subreddit, title, created_utc, num_comments) ==
    WithAuthor([id |-> id, title |-> title, selftext |-> "",
                subreddit |-> subreddit, created_utc |-> created_utc,
                score |-> score, ups |-> score, downs |-> 0,
                num_comments |-> num_comments, url |-> "https://redd.it/" \o id],
               author)

CommentDict(id, post_id, author, parent_id, score, body) ==
    WithAuthor([id |-> id, body |-> body, post_id |-> post_id,
                created_utc |-> 0, score |-> score, ups |-> score, downs |-> 0,
                parent_id |-> parent_id], author)

Limits == {SmallLimit, DefaultLimit}

NumTopics == {SmallNumTopics, DefaultNumTopics}

(***************************************************************************)
(* Spec: a store that starts empty, written by store_post and              *)
(* store_comment and read by get_user_influence.                           *)
(***************************************************************************)
PostInputs ==
    {PostDict(id, a, sc, "python", "hello", 0, 0) :
        id \in {"p1", "p2"}, a \in Authors, sc \in {1, MaxScore}}

\* a comment replies to the post or to an older comment of the thread; the
\* older comment need not be in the store
ParentIds(id) ==
    {"t3_p1"} \cup {"t1_" \o AllCommentIds[j] :
                      j \in {i \in 2..Len(AllCommentIds) :
                                \E n \in (i + 1)..Len(AllCommentIds) :
                                    AllCommentIds[n] = id}}

CommentInputs ==
    UNION {{CommentDict(id, "p1", a, par, 2, "hello") :
                a \in Authors, par \in ParentIds(id)} :
           id \in {"c1", "c2", "c3"}}

Init ==
    /\ posts = <<>>
    /\ comments = <<>>
    /\ ret = NoCall

Next ==
    \/ \E post \in PostInputs : store_post(post)
    \/ \E comment \in CommentInputs : store_comment(comment, comment["post_id"])
    \/ \E limit \in Limits : get_user_influence(limit)

Spec == Init /\ [][Next]_vars

(***************************************************************************)
(* SpecExisting: the store the program connects to may hold rows already   *)
(* (ensure_tables creates a table only when it is not there, and clears    *)
(* nothing).  Rows other writers left need not hold every column: the      *)
(* admin page's Update Post puts only a title and a score under a row key, *)
(* its Update Comment only a body and a score; and a score that was None   *)
(* when it was stored reads 'None'.  All seven analytics read this store.  *)
(***************************************************************************)
ExistingPostRows ==
    {[c \in {"post_data:title", "metrics:score"} |->
        IF c = "metrics:score" THEN "0" ELSE "edited"],
     [PostData(PostDict("p0", "alice", 1, "python", "hello", 0, 0))
        EXCEPT !["metrics:score"] = "None"]}

ExistingCommentRows ==
    {[c \in {"comment_data:body", "metrics:score"} |->
        IF c = "metrics:score" THEN "0" ELSE "edited"],
     [CommentData(CommentDict("c0", "p0", "alice", "t3_p0", 1, "hello"), "p0")
        EXCEPT !["metrics:score"] = "None"]}

ExistingPostInputs ==
    {PostDict("p1", "alice", 1, "python", "great news", 3600, 2),
     PostDict("p1", "alice", MaxScore, "python", "terrible news", 3600, 0),
     PostDict("p1", "[deleted]", 1, "news", "hello", 0, 1),
     PostDict("p2", "[deleted]", 1, "news", "the", 262800, 2),
     PostDict("p2", NoAuthor, MaxScore, "", "great news", 86400, 0)}

ExistingCommentInputs ==
    {CommentDict("c1", "p1", "alice", "t3_p1", 2, "terrible"),
     CommentDict("c1", "p1", NoAuthor, "t3_p1", 2, ""),
     CommentDict("c2", "p1", "[deleted]", "t1_c1", 2, "hello"),
     CommentDict("c2", "p1", "[deleted]", "t1_c3", 2, "great news")}

InitExisting ==
    /\ posts \in {<<>>} \cup {(PostRowKey("p0") :> r) : r \in ExistingPostRows}
    /\ comments \in {<<>>} \cup
            {(CommentRowKey("c0", "p0") :> r) : r \in ExistingCommentRows}
    /\ ret = NoCall

NextExisting ==
    \/ \E post \in ExistingPostInputs : store_post(post)
    \/ \E comment \in ExistingCommentInputs :
            store_comment(comment, comment["post_id"])
    \/ \E limit \in Limits : get_top_subreddits(limit)
    \/ \E limit \in Limits : get_top_authors(limit)
    \/ get_engagement_metrics
    \/ get_sentiment_trends
    \/ \E num_topics \in NumTopics : get_topics(num_topics)
    \/ \E limit \in Limits : get_user_influence(limit)
    \/ get_temporal_trends

SpecExisting == InitExisting /\ [][NextExisting]_vars

(***************************************************************************)
(* What the claims speak of, read off the tables themselves.               *)
(***************************************************************************)
IsInfluenceCall == ret.op = "get_user_influence"

HasCell(row, col) == col \in DOMAIN row

HasNumber(row, col) == HasCell(row, col) /\ IsNumeric(row[col])

\* the sum of the scores of the rows of table whose author_col is a
ScoreSum(table, author_col, a) ==
    LET rows == {k \in DOMAIN table :
                    /\ HasCell(table[k], author_col)
                    /\ table[k][author_col] = a
                    /\ HasNumber(table[k], "metrics:score")}
    IN  SumOver(rows, [k \in rows |-> Float(table[k]["metrics:score"])])

CellValues(table, col) ==
    {table[k][col] : k \in {r \in DOMAIN table : HasCell(table[r], col)}}

\* a's betweenness centrality in the reply graph of the last call, in units
CentralityOf(a) ==
    IF a \in NodeSet(ret.G) THEN betweenness_centrality(ret.G, a) ELSE 0

\* 1.0 * post scores + 0.5 * comment scores + 100 * centrality, in units
CombinedScore(a) ==
    Unit * ScoreSum(posts, "post_data:author", a)
        + (Unit \div 2) * ScoreSum(comments, "comment_data:author", a)
        + 100 * CentralityOf(a)

\* every author identity of the corpus and of the reply graph
AllAuthors ==
    CellValues(posts, "post_data:author")
        \cup CellValues(comments, "comment_data:author") \cup NodeSet(ret.G)

Ranked == {ret.value[i][1] : i \in 1..Len(ret.value)}

TotalOf(a) == ret.value[CHOOSE i \in 1..Len(ret.value) : ret.value[i][1] = a][2]

(***************************************************************************)
(* C1.  As claimed: every author's total is 1.0 x post scores + 0.5 x      *)
(* comment scores + 100 x centrality, an absent signal counting 0, and no  *)
(* error is raised, also when one corpus is empty.                         *)
(***************************************************************************)
C1_EveryAuthorTotalIsWeightedSum ==
    IsInfluenceCall =>
        /\ ret.status = "ok"
        /\ \A a \in Ranked : TotalOf(a) = CombinedScore(a)

\* C1, amended: the weighted sum is the total of every author whose name is
\* not the empty string; the empty-string author is left out of both score
\* sums and its total, when it is ranked at all, is 100 x its centrality.
C1_NamedAuthorTotalIsWeightedSum ==
    IsInfluenceCall =>
        /\ ret.status = "ok"
        /\ \A a \in Ranked :
              TotalOf(a) = IF a = "" THEN 100 * CentralityOf(a)
                           ELSE CombinedScore(a)
        /\ LET keys == (AllAuthors \ {""}) \cup NodeSet(ret.G)
           IN  ret.limit >= Cardinality(keys) => Ranked = keys

\* an author with a post score, a comment score and a centrality, all counted
C1_Witness ==
    /\ IsInfluenceCall
    /\ \E a \in Ranked :
          /\ ScoreSum(posts, "post_data:author", a) > 0
          /\ ScoreSum(comments, "comment_data:author", a) > 0
          /\ CentralityOf(a) > 0

(***************************************************************************)
(* C2.  As claimed: the reply graph has exactly the edges author(child) -> *)
(* author(parent) of the comments whose parent_id starts with t1_ and      *)
(* names a comment of the corpus; a reply to a post adds no edge, no node. *)
(***************************************************************************)
\* the comment rows that reply to a comment of the corpus
RepliesToComment ==
    {k \in DOMAIN comments :
        /\ StartsWithT1(comments[k]["comment_data:parent_id"])
        /\ \E p \in DOMAIN comments :
              comments[p]["comment_data:id"]
                  = Tail3(comments[k]["comment_data:parent_id"])}

\* the row a reply's parent_id names (Spec stores each comment id once)
ParentRow(k) ==
    CHOOSE p \in DOMAIN comments :
        comments[p]["comment_data:id"] = Tail3(comments[k]["comment_data:parent_id"])

ReplyEdge(k) ==
    <<comments[k]["comment_data:author"],
      comments[ParentRow(k)]["comment_data:author"]>>

GraphIsExactly(es) ==
    /\ ret.G.edges = es
    /\ NodeSet(ret.G) = {e[1] : e \in es} \cup {e[2] : e \in es}

C2_EdgePerResolvedCommentReply ==
    IsInfluenceCall => GraphIsExactly({ReplyEdge(k) : k \in RepliesToComment})

\* C2, amended: exactly the edges author(child) -> author(parent) of the
\* comments with a non-empty author whose parent_id starts with t1_ and names
\* a comment of the corpus, and no node besides the ends of these edges.
C2_EdgePerResolvedReplyOfNamedAuthor ==
    IsInfluenceCall =>
        GraphIsExactly({ReplyEdge(k) :
            k \in {r \in RepliesToComment :
                      comments[r]["comment_data:author"] # ""}})

\* a graph with an edge, beside a reply to a post whose author is no node
C2_Witness ==
    /\ IsInfluenceCall
    /\ ret.G.edges # {}
    /\ \E k \in DOMAIN comments :
          /\ comments[k]["comment_data:parent_id"] = "t3_p1"
          /\ comments[k]["comment_data:author"] # ""
          /\ comments[k]["comment_data:author"] \notin NodeSet(ret.G)

(***************************************************************************)
(* C7.  get_user_influence returns <<author, total>> pairs by total,       *)
(* descending, at most limit of them (5 by default); authors of equal      *)
(* total stand in the order they were first accumulated: post authors,     *)
(* then comment authors, then the nodes only the graph brings.             *)
(***************************************************************************)
NonEmpty(seq) == SelectSeq(seq, LAMBDA v : v # "")

\* the keys of the influence dict, in the order of their first accumulation
AccumulationOrder ==
    Distinct(NonEmpty(DropNa(to_dataframe(posts, "posts"), "post_data:author"))
             \o NonEmpty(DropNa(to_dataframe(comments, "comments"),
                                "comment_data:author"))
             \o ret.G.nodes)

AccumulatedAt(a) ==
    CHOOSE i \in 1..Len(AccumulationOrder) : AccumulationOrder[i] = a

\* the total the code keeps for key a
KeptTotal(a) == IF a = "" THEN 100 * CentralityOf(a) ELSE CombinedScore(a)

\* a of total t stands before b of total u
RanksBefore(a, t, b, u) ==
    t > u \/ (t = u /\ AccumulatedAt(a) < AccumulatedAt(b))

C7_SortedDescendingStableTruncated ==
    IsInfluenceCall /\ ret.status = "ok" =>
        LET keys == {AccumulationOrder[i] : i \in 1..Len(AccumulationOrder)}
        IN  /\ Len(ret.value) = IF ret.limit < Cardinality(keys)
                                THEN ret.limit ELSE Cardinality(keys)
            /\ Ranked \subseteq keys
            /\ \A i, j \in 1..Len(ret.value) :
                  i < j => RanksBefore(ret.value[i][1], ret.value[i][2],
                                       ret.value[j][1], ret.value[j][2])
            /\ \A i \in 1..Len(ret.value) : \A b \in keys \ Ranked :
                  RanksBefore(ret.value[i][1], ret.value[i][2], b, KeptTotal(b))

\* a result cut to limit whose first two authors have equal totals
C7_Witness ==
    /\ IsInfluenceCall
    /\ Len(ret.value) = ret.limit
    /\ Len(AccumulationOrder) > ret.limit
    /\ ret.value[1][2] = ret.value[2][2]

(***************************************************************************)
(* C8.  As claimed: the authors '[deleted]' and '' are accumulated and     *)
(* ranked like any other author; nothing filters them.                     *)
(***************************************************************************)
Wrote(a) ==
    a \in CellValues(posts, "post_data:author")
              \cup CellValues(comments, "comment_data:author")

RankedLikeAnyAuthor(a) ==
    /\ ret.limit >= Cardinality(AllAuthors) => a \in Ranked
    /\ a \in Ranked => TotalOf(a) = CombinedScore(a)

C8_SentinelAndEmptyAuthorsRanked ==
    IsInfluenceCall =>
        \A a \in {"[deleted]", ""} : Wrote(a) => RankedLikeAnyAuthor(a)

\* C8, amended: '[deleted]' is accumulated and ranked like any other author.
\* The empty string is filtered: it is left out of both score sums and starts
\* no reply edge; it is ranked only when it is the author of a replied-to
\* comment, and then with 100 x its centrality alone.
C8_SentinelRankedEmptyAuthorFiltered ==
    IsInfluenceCall =>
        /\ Wrote("[deleted]") => RankedLikeAnyAuthor("[deleted]")
        /\ \A e \in ret.G.edges : e[1] # ""
        /\ "" \in Ranked =>
              /\ \E e \in ret.G.edges : e[2] = ""
              /\ TotalOf("") = 100 * CentralityOf("")
        /\ ret.limit >= Cardinality(AllAuthors) =>
              ("" \in Ranked <=> "" \in NodeSet(ret.G))

\* '[deleted]' ranked with its post and comment scores, beside an empty
\* author that wrote a post and a comment and is not ranked
C8_Witness ==
    /\ IsInfluenceCall
    /\ ret.limit = DefaultLimit
    /\ "[deleted]" \in Ranked
    /\ ScoreSum(posts, "post_data:author", "[deleted]") > 0
    /\ ScoreSum(comments, "comment_data:author", "[deleted]") > 0
    /\ ScoreSum(posts, "post_data:author", "") > 0
    /\ ScoreSum(comments, "comment_data:author", "") > 0
    /\ "" \notin Ranked

(***************************************************************************)
(* C9.  Raising the score of one post of author X, all else fixed, never   *)
(* moves X below an author Y whose total was lower than or tied with X's.  *)
(***************************************************************************)
\* what get_user_influence(limit) returns over the tables p and c
Ranking(p, c, limit) ==
    get_user_influence_result(to_dataframe(p, "posts"),
                              to_dataframe(c, "comments"), limit).value

\* y is ranked in res, and x is not, or only after y
Below(res, x, y) ==
    \E j \in 1..Len(res) :
        /\ res[j][1] = y
        /\ \A i \in 1..Len(res) : res[i][1] = x => j < i

\* the step rewrites post row k with a higher score and nothing else that
\* the ranking reads
RaisesScoreOf(k) ==
    /\ comments' = comments
    /\ DOMAIN posts' = DOMAIN posts
    /\ \A r \in DOMAIN posts : r # k => posts'[r] = posts[r]
    /\ \A c \in DOMAIN posts[k] :
          c \notin {"metrics:score", "metrics:ups"} => posts'[k][c] = posts[k][c]
    /\ Float(posts'[k]["metrics:score"]) > Float(posts[k]["metrics:score"])

C9_RaisingPostScoreNeverLowersRank ==
    [][\A k \in DOMAIN posts : RaisesScoreOf(k) =>
          LET X == posts[k]["post_data:author"]
              all == Ranking(posts, comments,
                             Cardinality(DOMAIN posts) + Cardinality(DOMAIN comments))
              total(a) == all[CHOOSE i \in 1..Len(all) : all[i][1] = a][2]
              keys == {all[i][1] : i \in 1..Len(all)}
          IN  X \in keys =>
                \A Y \in keys \ {X} : \A limit \in Limits :
                    (total(Y) <= total(X)
                        /\ ~Below(Ranking(posts, comments, limit), X, Y))
                    => ~Below(Ranking(posts', comments', limit), X, Y)]_vars

\* X stands above Y only by the raise of its post: with the lowest score in
\* its place X's total would not exceed Y's
C9_Witness ==
    /\ IsInfluenceCall
    /\ ret.limit = DefaultLimit
    /\ \E k \in DOMAIN posts : \E Y \in Ranked :
          LET X == posts[k]["post_data:author"]
          IN  /\ X \in Ranked /\ X # Y /\ X # ""
              /\ posts[k]["metrics:score"] = Str(MaxScore)
              /\ ~Below(ret.value, X, Y)
              /\ TotalOf(X) - (MaxScore - 1) * Unit <= TotalOf(Y)

(***************************************************************************)
(* The claims about records that lack a field or hold a malformed number.  *)
(***************************************************************************)
\* the rows of table that hold every column of cols
RowsWith(table, cols) ==
    LET keep == {k \in DOMAIN table : \A c \in cols : HasCell(table[k], c)}
    IN  [k \in keep |-> table[k]]

\* every score and comment-count cell that is there is a number
MetricsAreNumbers ==
    /\ \A k \in DOMAIN posts : \A c \in {"metrics:score", "metrics:num_comments"} :
          HasCell(posts[k], c) => IsNumeric(posts[k][c])
    /\ \A k \in DOMAIN comments :
          HasCell(comments[k], "metrics:score") => IsNumeric(comments[k]["metrics:score"])

\* the columns a call reads of the posts and of the comments
PostColumnsRead(op) ==
    CASE op = "get_top_subreddits" -> {"post_data:subreddit"}
      [] op = "get_top_authors" -> {"post_data:author"}
      [] op = "get_engagement_metrics" -> {"metrics:score", "metrics:num_comments"}
      [] op = "get_sentiment_trends" -> {"post_data:title"}
      [] op = "get_topics" -> {"post_data:title"}
      [] op = "get_user_influence" -> {"post_data:author", "metrics:score"}
      [] op = "get_temporal_trends" -> {"post_data:created_utc"}
      [] OTHER -> {}

CommentColumnsRead(op) ==
    CASE op = "get_sentiment_trends" -> {"comment_data:text"}
      [] op = "get_user_influence" ->
            {"comment_data:author", "metrics:score", "comment_data:parent_id",
             "comment_data:id"}
      [] OTHER -> {}

\* the mean of the cells of col that are there and are numbers; 0 without any
MeanOf(table, col) ==
    LET rows == {k \in DOMAIN table : HasNumber(table[k], col)}
    IN  IF rows = {} THEN <<0, 1>>
        ELSE <<SumOver(rows, [k \in rows |-> Float(table[k][col])]),
               Cardinality(rows)>>

SameMean(a, b) == a[1] * b[2] = b[1] * a[2]

\* the call returned its result for no data
ReturnedNoData ==
    /\ ret.status = "ok"
    /\ CASE ret.op = "get_engagement_metrics" ->
                ret.avg_score = <<0, 1>> /\ ret.avg_comments = <<0, 1>>
         [] ret.op = "get_sentiment_trends" ->
                /\ ret.total = 0
                /\ ret.value = [positive |-> 0, neutral |-> 0, negative |-> 0]
         [] OTHER -> ret.value = <<>>

(***************************************************************************)
(* C3.  On an empty corpus, or one of which no record holds a field the    *)
(* component reads, every analytics component returns its zero or empty    *)
(* result and raises nothing.                                              *)
(***************************************************************************)
C3_NoUsableRowsGivesEmptyResult ==
    (/\ ret.op # "none"
     /\ \A k \in DOMAIN posts : \A c \in PostColumnsRead(ret.op) :
            ~HasCell(posts[k], c)
     /\ \A k \in DOMAIN comments : \A c \in CommentColumnsRead(ret.op) :
            ~HasCell(comments[k], c))
    => ReturnedNoData

(***************************************************************************)
(* C4.  A record that lacks a field a component reads is left out of the   *)
(* aggregate over that field, and the call raises nothing: the call        *)
(* returns what it returns over the records that hold the field.           *)
(***************************************************************************)
C4_RecordLackingFieldIsExcluded ==
    (ret.op # "none" /\ MetricsAreNumbers) =>
        LET p == to_dataframe(RowsWith(posts, PostColumnsRead(ret.op)), "posts")
            c == to_dataframe(RowsWith(comments, CommentColumnsRead(ret.op)),
                              "comments")
        IN  /\ ret.status = "ok"
            /\ CASE ret.op = "get_top_subreddits" ->
                      ret.value = top_values_result(p, "post_data:subreddit",
                                                    ret.limit).value
                 [] ret.op = "get_top_authors" ->
                      ret.value = top_values_result(p, "post_data:author",
                                                    ret.limit).value
                 [] ret.op = "get_engagement_metrics" ->
                      /\ SameMean(ret.avg_score, MeanOf(posts, "metrics:score"))
                      /\ SameMean(ret.avg_comments,
                                  MeanOf(posts, "metrics:num_comments"))
                 [] ret.op = "get_sentiment_trends" ->
                      ret.value = get_sentiment_trends_result(p, c).value
                 [] ret.op = "get_topics" ->
                      ret.value = get_topics_result(p, ret.num_topics).value
                 [] ret.op = "get_user_influence" ->
                      ret.value = get_user_influence_result(p, c, ret.limit).value
                 [] OTHER ->
                      ret.value = get_temporal_trends_result(p).value

(***************************************************************************)
(* C5.  A score or comment count that is there but is no number counts as  *)
(* missing: its record is left out of the aggregate and nothing is raised, *)
(* in get_engagement_metrics and in the score sums of get_user_influence.  *)
(***************************************************************************)
C5_MalformedNumberIsExcluded ==
    (/\ ret.op \in {"get_engagement_metrics", "get_user_influence"}
     /\ ~MetricsAreNumbers
     /\ RowsWith(posts, PostColumnsRead(ret.op)) = posts
     /\ RowsWith(comments, CommentColumnsRead(ret.op)) = comments)
    => /\ ret.status = "ok"
       /\ IF ret.op = "get_engagement_metrics"
          THEN /\ SameMean(ret.avg_score, MeanOf(posts, "metrics:score"))
               /\ SameMean(ret.avg_comments, MeanOf(posts, "metrics:num_comments"))
          ELSE \A a \in Ranked : TotalOf(a) = KeptTotal(a)

(***************************************************************************)
(* C6.  get_engagement_metrics returns, for the score and for the comment  *)
(* count, the mean over exactly the posts whose cell is there and is a     *)
(* number; both are 0 on an empty corpus or when no record has the metric. *)
(***************************************************************************)
C6_MeanOverPresentNumericCells ==
    ret.op = "get_engagement_metrics" =>
        /\ ret.status = "ok"
        /\ SameMean(ret.avg_score, MeanOf(posts, "metrics:score"))
        /\ SameMean(ret.avg_comments, MeanOf(posts, "metrics:num_comments"))

(***************************************************************************)
(* C10.  A comment whose author is missing or empty, or whose t1_          *)
(* parent_id names no comment of the corpus, is skipped by the reply-graph *)
(* builder: no edge, no node, and no error from get_user_influence.        *)
(***************************************************************************)
\* the comment rows with an author that reply to a comment of the corpus
NamedRepliesToComment ==
    {k \in DOMAIN comments :
        /\ HasCell(comments[k], "comment_data:author")
        /\ comments[k]["comment_data:author"] # ""
        /\ HasCell(comments[k], "comment_data:parent_id")
        /\ StartsWithT1(comments[k]["comment_data:parent_id"])
        /\ \E q \in DOMAIN RowsWith(comments, {"comment_data:id"}) :
              comments[q]["comment_data:id"]
                  = Tail3(comments[k]["comment_data:parent_id"])}

C10_AuthorlessOrOrphanCommentIsSkipped ==
    (IsInfluenceCall /\ MetricsAreNumbers) =>
        /\ ret.status = "ok"
        /\ ret.G.edges = {<<comments[k]["comment_data:author"],
                            Cell(to_dataframe(comments, "comments"),
                                 Min(RowsWithId(to_dataframe(comments, "comments"),
                                         Tail3(comments[k]["comment_data:parent_id"]))),
                                 "comment_data:author")>> :
                          k \in NamedRepliesToComment}

(***************************************************************************)
(* C11.  A reply graph without edges has no node, so no centrality is      *)
(* computed and every total is the score sums alone; and when the reply    *)
(* graph is a path A -> B -> C of three authors, the centrality added to   *)
(* B's total is positive and the centrality added to A's and C's is 0.     *)
(***************************************************************************)
\* what a's total holds beyond its post and comment scores
CentralityTerm(a) ==
    TotalOf(a) - (IF a = "" THEN 0
                  ELSE Unit * ScoreSum(posts, "post_data:author", a)
                       + (Unit \div 2) * ScoreSum(comments, "comment_data:author", a))

\* the reply graph of the last call is the path a -> b -> c
IsPath(a, b, c) ==
    /\ a # b /\ b # c /\ a # c
    /\ ret.G.edges = {<<a, b>>, <<b, c>>}

C11_NoEdgeNoCentralityAndPathMiddleOnly ==
    (IsInfluenceCall /\ ret.status = "ok") =>
        /\ ret.G.edges = {} =>
              /\ ret.G.nodes = <<>>
              /\ \A a \in Ranked : CentralityTerm(a) = 0
        /\ \A a, b, c \in NodeSet(ret.G) :
              (IsPath(a, b, c) /\ {a, b, c} \subseteq Ranked) =>
                  /\ CentralityTerm(b) > 0
                  /\ CentralityTerm(a) = 0
                  /\ CentralityTerm(c) = 0

\* a call whose reply graph is a path of three authors, all of them ranked
C11_Witness ==
    /\ IsInfluenceCall
    /\ \E a, b, c \in NodeSet(ret.G) :
          IsPath(a, b, c) /\ {a, b, c} \subseteq Ranked /\ CentralityTerm(b) > 0

(***************************************************************************)
(* C12.  When at least one item was classified, get_sentiment_trends       *)
(* returns each bucket count divided by the number of classified items of  *)
(* posts and comments together, so the three values sum to 1; when none    *)
(* was classified it returns the three zero counts as they are.            *)
(***************************************************************************)
IsSentimentCall == ret.op = "get_sentiment_trends"

\* the rows of table that hold column col
TextRows(table, col) == {k \in DOMAIN table : HasCell(table[k], col)}

\* the number of titles and comment texts that are there
ClassifiedCount ==
    Cardinality(TextRows(posts, "post_data:title"))
        + Cardinality(TextRows(comments, "comment_data:text"))

C12_SharesOfClassifiedSumToOne ==
    IsSentimentCall =>
        /\ ret.status = "ok"
        /\ ret.total = ClassifiedCount
        /\ ret.value.positive + ret.value.neutral + ret.value.negative = ret.total
        /\ ClassifiedCount = 0 =>
              ret.value = [positive |-> 0, neutral |-> 0, negative |-> 0]

\* shares over titles and comment texts together, beside a record without text
C12_Witness ==
    /\ IsSentimentCall
    /\ TextRows(posts, "post_data:title") # {}
    /\ TextRows(comments, "comment_data:text") # {}
    /\ TextRows(comments, "comment_data:text") # DOMAIN comments
    /\ ret.total = ClassifiedCount
    /\ ret.value.positive > 0 /\ ret.value.positive < ret.total

(***************************************************************************)
(* C13.  Every title and comment text that is there is counted in exactly  *)
(* one bucket, by the sign of its polarity; an empty text is neutral and   *)
(* in no other bucket; a record without the text field is in no bucket.    *)
(***************************************************************************)
Sign(x) == IF x > 0 THEN 1 ELSE IF x < 0 THEN 0 - 1 ELSE 0

\* the number of texts that are there whose polarity has the sign sgn
BucketCount(sgn) ==
    Cardinality({k \in TextRows(posts, "post_data:title") :
                    Sign(Polarity(posts[k]["post_data:title"])) = sgn})
        + Cardinality({k \in TextRows(comments, "comment_data:text") :
                          Sign(Polarity(comments[k]["comment_data:text"])) = sgn})

\* the number of texts that are there and are the empty string
EmptyTextCount ==
    Cardinality({k \in TextRows(posts, "post_data:title") :
                    posts[k]["post_data:title"] = ""})
        + Cardinality({k \in TextRows(comments, "comment_data:text") :
                          comments[k]["comment_data:text"] = ""})

C13_OneBucketBySignOfPolarity ==
    IsSentimentCall =>
        /\ ret.status = "ok"
        /\ ret.value.positive = BucketCount(1)
        /\ ret.value.negative = BucketCount(0 - 1)
        /\ ret.value.neutral = BucketCount(0)
        /\ ret.value.neutral >= EmptyTextCount
        /\ ret.value.positive + ret.value.negative <= ClassifiedCount - EmptyTextCount

\* an empty comment text counted as neutral, beside a comment without text
\* and a positive title
C13_Witness ==
    /\ IsSentimentCall
    /\ EmptyTextCount > 0
    /\ TextRows(comments, "comment_data:text") # DOMAIN comments
    /\ ret.value.neutral = EmptyTextCount
    /\ ret.value.positive > 0

(***************************************************************************)
(* C14.  get_top_subreddits and get_top_authors return <<value, count>>    *)
(* pairs, count being the number of posts with that value of the field,    *)
(* by count, descending, at most limit of them, values of equal count in   *)
(* first-seen order.                                                       *)
(***************************************************************************)
IsRankerCall == ret.op \in {"get_top_subreddits", "get_top_authors"}

RankedColumn ==
    IF ret.op = "get_top_subreddits" THEN "post_data:subreddit"
    ELSE "post_data:author"

PostsWithValue(v) ==
    {k \in DOMAIN posts :
        HasCell(posts[k], RankedColumn) /\ posts[k][RankedColumn] = v}

\* the place in the scan of the first post with value v
FirstSeen(v) ==
    Min({i \in 1..Len(PostScanOrder) : PostScanOrder[i] \in PostsWithValue(v)})

\* value v of count n stands before value w of count m
CountsBefore(v, n, w, m) == n > m \/ (n = m /\ FirstSeen(v) < FirstSeen(w))

C14_PairsByCountDescendingTruncated ==
    (IsRankerCall /\ ret.status = "ok") =>
        LET values == CellValues(posts, RankedColumn)
            returned == {ret.value[i][1] : i \in 1..Len(ret.value)}
        IN  /\ Len(ret.value) = IF ret.limit < Cardinality(values)
                                THEN ret.limit ELSE Cardinality(values)
            /\ \A i \in 1..Len(ret.value) :
                  /\ ret.value[i][1] \in values
                  /\ ret.value[i][2] = Cardinality(PostsWithValue(ret.value[i][1]))
            /\ \A i, j \in 1..Len(ret.value) :
                  i < j => CountsBefore(ret.value[i][1], ret.value[i][2],
                                        ret.value[j][1], ret.value[j][2])
            /\ \A i \in 1..Len(ret.value) : \A w \in values \ returned :
                  CountsBefore(ret.value[i][1], ret.value[i][2],
                               w, Cardinality(PostsWithValue(w)))

\* the value seen first has the lower count and is returned second
C14_Witness ==
    /\ IsRankerCall
    /\ ret.status = "ok"
    /\ Len(ret.value) = 2
    /\ ret.value[1][2] > ret.value[2][2]
    /\ FirstSeen(ret.value[2][1]) < FirstSeen(ret.value[1][1])

(***************************************************************************)
(* C15.  In get_top_subreddits and get_top_authors the records whose       *)
(* ranked field is missing or is the empty string are left out of the      *)
(* counts: no returned pair has a missing or an empty value.               *)
(***************************************************************************)
C15_NoMissingOrEmptyValueRanked ==
    (IsRankerCall /\ ret.status = "ok") =>
        \A i \in 1..Len(ret.value) :
            ret.value[i][1] # NaN /\ ret.value[i][1] # ""

(***************************************************************************)
(* C16.  get_temporal_trends puts each post that has a timestamp in one    *)
(* day-of-week bucket and one hour bucket of 0..23, both taken from the    *)
(* epoch seconds in UTC, so the day counts and the hour counts each sum to *)
(* the number of posts that have a timestamp.                              *)
(***************************************************************************)
IsTemporalCall == ret.op = "get_temporal_trends"

TimestampRows ==
    {k \in DOMAIN posts : HasCell(posts[k], "post_data:created_utc")}

EpochSeconds(k) == ParseSeconds(posts[k]["post_data:created_utc"])

\* 1970-01-01T00:00Z began a Thursday
WeekFromThursday == <<"Thursday", "Friday", "Saturday", "Sunday", "Monday",
                      "Tuesday", "Wednesday">>

UtcDay(t) == WeekFromThursday[((t \div 86400) % 7) + 1]

UtcHour(t) == (t \div 3600) % 24

C16_OneDayAndOneHourBucketPerPost ==
    (IsTemporalCall /\ TimestampRows # {}) =>
        /\ ret.status = "ok"
        /\ DOMAIN ret.value = {"by_day", "by_hour"}
        /\ DOMAIN ret.value.by_hour \subseteq 0..23
        /\ \A d \in DOMAIN ret.value.by_day :
              ret.value.by_day[d]
                  = Cardinality({k \in TimestampRows : UtcDay(EpochSeconds(k)) = d})
        /\ \A h \in DOMAIN ret.value.by_hour :
              ret.value.by_hour[h]
                  = Cardinality({k \in TimestampRows : UtcHour(EpochSeconds(k)) = h})
        /\ SumOver(DOMAIN ret.value.by_day, ret.value.by_day)
              = Cardinality(TimestampRows)
        /\ SumOver(DOMAIN ret.value.by_hour, ret.value.by_hour)
              = Cardinality(TimestampRows)

\* two posts of different days and the same hour, beside a post without a
\* timestamp
C16_Witness ==
    /\ IsTemporalCall
    /\ TimestampRows # DOMAIN posts
    /\ Cardinality(TimestampRows) = 2
    /\ Cardinality(DOMAIN ret.value.by_day) = 2
    /\ Cardinality(DOMAIN ret.value.by_hour) = 1

(***************************************************************************)
(* C17.  For an empty posts corpus, or one without the timestamp field,    *)
(* get_temporal_trends returns the empty mapping, not zeros for the 7 days *)
(* and the 24 hours; otherwise only the days and the hours with at least   *)
(* one post are keys.                                                      *)
(***************************************************************************)
C17_EmptyMappingAndOnlyOccupiedKeys ==
    IsTemporalCall =>
        /\ ret.status = "ok"
        /\ TimestampRows = {} => DOMAIN ret.value = {}
        /\ TimestampRows # {} =>
              /\ DOMAIN ret.value.by_day
                    = {UtcDay(EpochSeconds(k)) : k \in TimestampRows}
              /\ DOMAIN ret.value.by_hour
                    = {UtcHour(EpochSeconds(k)) : k \in TimestampRows}
              /\ \A d \in DOMAIN ret.value.by_day : ret.value.by_day[d] >= 1
              /\ \A h \in DOMAIN ret.value.by_hour : ret.value.by_hour[h] >= 1

\* posts are there, none with a timestamp, and the result is the empty mapping
C17_Witness ==
    /\ IsTemporalCall
    /\ DOMAIN posts # {}
    /\ TimestampRows = {}
    /\ DOMAIN ret.value = {}

(***************************************************************************)
(* C18.  When there is no title document, or no term is left once the stop *)
(* words and the terms of over 95% or of fewer than 2 documents are        *)
(* removed, get_topics returns the empty topic list and raises nothing.    *)
(***************************************************************************)
IsTopicsCall == ret.op = "get_topics"

TitleRows == TextRows(posts, "post_data:title")

\* the number of titles term t occurs in
DocumentFrequency(t) ==
    Cardinality({k \in TitleRows : t \in Tokens(posts[k]["post_data:title"])})

\* the terms that are in at most 95% of the titles and in at least 2
PrunedVocabulary ==
    {t \in UNION {Tokens(posts[k]["post_data:title"]) : k \in TitleRows} :
        /\ 100 * DocumentFrequency(t) <= MaxDfPercent * Cardinality(TitleRows)
        /\ DocumentFrequency(t) >= MinDf}

C18_EmptyVocabularyGivesNoTopics ==
    (IsTopicsCall /\ (TitleRows = {} \/ PrunedVocabulary = {})) =>
        /\ ret.status = "ok"
        /\ ret.value = <<>>

C20_AnalyticsLeaveTablesUnchanged ==
    [][ret'.op # "none" => (posts' = posts /\ comments' = comments)]_vars

\* get_temporal_trends, which adds columns to its DataFrame, has returned
\* buckets over tables that both hold rows
C20_Witness ==
    /\ IsTemporalCall
    /\ TimestampRows # {}
    /\ DOMAIN comments # {}
    /\ DOMAIN ret.value = {"by_day", "by_hour"}

(***************************************************************************)
(* The store as a call finds it.  HBaseManager.ensure_tables creates the   *)
(* tables Config.HBASE_TABLE_PREFIX + 'posts' / 'comments', a prefix the   *)
(* environment sets ('reddit_' by default); to_dataframe opens the table   *)
(* 'reddit_' + table_name whatever the prefix is.  So a load finds its     *)
(* table ("up"), finds no table of that name ("no_table": the prefix is    *)
(* not 'reddit_' and nobody made the table), or cannot reach the Thrift    *)
(* server at all ("down").                                                 *)
(***************************************************************************)
StoreStates == {"up", "no_table", "down"}

\* a load that swallows its failure, as the admin page's fetch_table_data does
scan_status_swallowed(store) == "ok"

\* table.scan(): the exception it raises, or "ok"
scan_status(store) ==
    CASE store = "down" -> "TTransportException"
      [] store = "no_table" -> "IOError"
      [] OTHER -> "ok"

\* to_dataframe with the store in condition store: the DataFrame, or the
\* exception of the scan, which nothing in to_dataframe catches
load(table, table_name, store) ==
    IF scan_status(store) = "ok"
    THEN [status |-> "ok", value |-> to_dataframe(table, table_name)]
    ELSE [status |-> scan_status(store), value |-> <<>>]

TableNames == {"posts", "comments"}

Table(table_name) == IF table_name = "posts" THEN posts ELSE comments

\* analytics.to_dataframe(table_name), as perform_analysis calls it
to_dataframe_call(table_name, store) ==
    /\ ret' = [op |-> "to_dataframe", table_name |-> table_name,
               store |-> store] @@ load(Table(table_name), table_name, store)
    /\ UNCHANGED <<posts, comments>>

Methods == {"get_top_subreddits", "get_top_authors", "get_engagement_metrics",
            "get_sentiment_trends", "get_topics", "get_user_influence",
            "get_temporal_trends"}

\* what a method returns with its default arguments once its loads are done
MethodResult(method) ==
    LET posts_df == to_dataframe(posts, "posts")
        comments_df == to_dataframe(comments, "comments")
    IN  CASE method = "get_top_subreddits" ->
                top_values_result(posts_df, "post_data:subreddit", DefaultLimit)
          [] method = "get_top_authors" ->
                top_values_result(posts_df, "post_data:author", DefaultLimit)
          [] method = "get_engagement_metrics" ->
                get_engagement_metrics_result(posts_df)
          [] method = "get_sentiment_trends" ->
                get_sentiment_trends_result(posts_df, comments_df)
          [] method = "get_topics" ->
                get_topics_result(posts_df, DefaultNumTopics)
          [] method = "get_user_influence" ->
                get_user_influence_result(posts_df, comments_df, DefaultLimit)
          [] OTHER -> get_temporal_trends_result(posts_df)

\* a RedditAnalytics method called with the store in condition store: each
\* method begins with its loads, and an exception of a load leaves the method
analytics_method(method, store) ==
    /\ ret' = IF scan_status(store) = "ok"
              THEN [op |-> method, store |-> store] @@ MethodResult(method)
              ELSE [op |-> method, store |-> store,
                    status |-> scan_status(store)]
    /\ UNCHANGED <<posts, comments>>

(***************************************************************************)
(* run_analysis_streamlit.fetch_and_store_data.  An input that is not      *)
(* given is None or '', written "" here.  listing is what the content API  *)
(* answers to the listing call: an exception, or the posts, each with its  *)
(* top-level comments; store_post_raises and comments_fail say where the   *)
(* work on one post raises: comments_fail = 1 in get_post_comments,        *)
(* comments_fail = j + 1 in the store_comment of its j-th comment.  calls  *)
(* lists the calls made to the content API and to the store, in order.     *)
(***************************************************************************)
\* some input is given
at_least_one_given(subreddit_name, query, post_id) ==
    subreddit_name # "" \/ query # "" \/ post_id # ""

\* sum(1 for x in [subreddit_name, query, post_id] if x) == 1
exactly_one_given(subreddit_name, query, post_id) ==
    Cardinality({i \in 1..3 : <<subreddit_name, query, post_id>>[i] # ""}) = 1

\* no try around the comments of a post: the exception ends the whole fetch
except_comments_reraise(acc) == [acc EXCEPT !.raised = TRUE]

\* except Exception around the comments of one post: logged, the loop goes on
except_comments(acc) == acc

\* for comment in comments: hbase.store_comment(comment_dict, post.id)
RECURSIVE CommentLoop(_, _, _, _, _)
CommentLoop(cs, j, post_id, fail, acc) ==
    IF j > Len(cs) THEN acc
    ELSE IF fail = j + 1 THEN except_comments(acc)
    ELSE CommentLoop(cs, j + 1, post_id, fail,
            [acc EXCEPT
                !.comments = Put(@, CommentRowKey(cs[j]["id"], post_id),
                                 CommentData(cs[j], post_id)),
                !.calls = Append(@, <<"store_comment", cs[j]["id"]>>)])

\* for i, post in enumerate(posts): store the post, then fetch and store its
\* comments; an exception of store_post leaves the loop
RECURSIVE FetchLoop(_, _, _)
FetchLoop(feed, i, acc) ==
    IF i > Len(feed) \/ acc.raised THEN acc
    ELSE LET item == feed[i]
             id == item.post["id"]
         IN  IF item.store_post_raises THEN [acc EXCEPT !.raised = TRUE]
             ELSE LET stored ==
                          [acc EXCEPT
                              !.posts = Put(@, PostRowKey(id), PostData(item.post)),
                              !.calls = Append(Append(@, <<"store_post", id>>),
                                               <<"get_post_comments", id>>)]
                  IN  FetchLoop(feed, i + 1,
                         IF item.comments_fail = 1 THEN except_comments(stored)
                         ELSE CommentLoop(item.comments, 1, id,
                                          item.comments_fail, stored))

\* what fetch_and_store_data returns and leaves in the tables p and c
fetch_and_store_data_result(p, c, subreddit_name, query, post_id, listing) ==
    LET no(error, calls) ==
            [value |-> FALSE, error |-> error, posts |-> p, comments |-> c,
             calls |-> calls]
        api == IF subreddit_name # ""
               THEN <<"get_subreddit_posts", subreddit_name>>
               ELSE <<"search_posts", query>>
    IN  IF ~exactly_one_given(subreddit_name, query, post_id)
        THEN no("invalid input", <<>>)
        ELSE IF subreddit_name = "" /\ query = ""
        THEN \* reddit.get_post_by_id: RedditConnector has no such method
             no("AttributeError", <<>>)
        ELSE IF listing.error # "" THEN no(listing.error, <<api>>)
        ELSE IF Len(listing.posts) = 0 THEN no("no posts", <<api>>)
        ELSE LET out == FetchLoop(listing.posts, 1,
                                  [posts |-> p, comments |-> c,
                                   calls |-> <<api>>, raised |-> FALSE])
             IN  [value |-> ~out.raised,
                  error |-> IF out.raised THEN "Exception" ELSE "",
                  posts |-> out.posts, comments |-> out.comments,
                  calls |-> out.calls]

fetch_and_store_data(subreddit_name, query, post_id, listing) ==
    LET out == fetch_and_store_data_result(posts, comments, subreddit_name,
                                           query, post_id, listing)
    IN  /\ posts' = out.posts
        /\ comments' = out.comments
        /\ ret' = [op |-> "fetch_and_store_data", status |-> "ok",
                   value |-> out.value, error |-> out.error, calls |-> out.calls,
                   subreddit_name |-> subreddit_name, query |-> query,
                   post_id |-> post_id, listing |-> listing]

(***************************************************************************)
(* run_analysis_streamlit.main, one run of the script.  failure names the  *)
(* step outside fetch_and_store_data that raises, "" for none.  opened and *)
(* closed count the store connections main opened and closed.              *)
(***************************************************************************)
InputTypes == {"Subreddit", "Search Query", "Post ID"}
MainFailures == {"", "RedditConnector", "Connection", "ensure_tables",
                 "display_results"}

\* the except branch of main: closes only if the name hbase is bound
except_main(opened, bound) == IF bound THEN opened ELSE 0

main_result(p, c, input_type, text, run_button, listing, failure) ==
    LET idle(opened, closed, error) ==
            [opened |-> opened, closed |-> closed, fetch |-> "not called",
             analysed |-> FALSE, error |-> error, posts |-> p, comments |-> c,
             calls |-> <<>>]
    IN  CASE failure = "RedditConnector" -> idle(0, except_main(0, FALSE), failure)
          [] failure = "Connection" -> idle(0, except_main(0, FALSE), failure)
          [] failure = "ensure_tables" -> idle(1, except_main(1, FALSE), failure)
          [] OTHER ->
               IF ~run_button THEN idle(1, 0, "")
               ELSE LET out == fetch_and_store_data_result(p, c,
                                   IF input_type = "Subreddit" THEN text ELSE "",
                                   IF input_type = "Search Query" THEN text ELSE "",
                                   IF input_type = "Post ID" THEN text ELSE "",
                                   listing)
                        raised == out.value /\ failure = "display_results"
                    IN  [opened |-> 1,
                         closed |-> IF raised THEN except_main(1, TRUE) ELSE 1,
                         fetch |-> IF out.value THEN "True" ELSE "False",
                         analysed |-> out.value,
                         error |-> IF raised THEN failure ELSE "",
                         posts |-> out.posts, comments |-> out.comments,
                         calls |-> out.calls]

main(input_type, text, run_button, listing, failure) ==
    LET out == main_result(posts, comments, input_type, text, run_button,
                           listing, failure)
    IN  /\ posts' = out.posts
        /\ comments' = out.comments
        /\ ret' = [op |-> "main", status |-> "ok", run_button |-> run_button,
                   failure |-> failure, opened |-> out.opened,
                   closed |-> out.closed, fetch |-> out.fetch,
                   analysed |-> out.analysed, error |-> out.error,
                   calls |-> out.calls]

(***************************************************************************)
(* pages/hbase_manager.py, the Comments tab of the admin page.  posts_df   *)
(* and comments_df are the frames fetch_table_data loaded for this run of  *)
(* the page; the forms offer the ids of comments_df.                       *)
(***************************************************************************)
\* comment_ids: comments_df['comment_data:id'].tolist(), [] without the column
comment_ids(df) ==
    IF Len(df) > 0 /\ "comment_data:id" \in Columns(df)
    THEN {Cell(df, i, "comment_data:id") : i \in 1..Len(df)} \ {NaN}
    ELSE {}

\* df[mask_df[column] == value]['row_key'].iloc[0]: the exception, or the key
first_row_key(df, mask_df, column, value) ==
    IF column \notin Columns(mask_df)
    THEN [status |-> "KeyError", key |-> ""]
    ELSE IF Len(mask_df) # Len(df)
    THEN [status |-> "IndexingError", key |-> ""]
    ELSE LET hits == {i \in 1..Len(df) : Cell(mask_df, i, column) = value}
         IN  IF hits = {} THEN [status |-> "IndexError", key |-> ""]
             ELSE [status |-> "ok", key |-> df[Min(hits)]["row_key"]]

\* table.delete(row_key)
Delete(table, key) == [k \in DOMAIN table \ {key} |-> table[k]]

\* Update Comment: submit with a selected id
update_comment(update_comment_id, new_text, new_comment_score) ==
    LET comments_df == to_dataframe(comments, "comments")
        found == first_row_key(comments_df, comments_df, "comment_data:id",
                               update_comment_id)
    IN  /\ update_comment_id \in comment_ids(comments_df)
        /\ comments' =
             IF found.status = "ok"
             THEN Put(comments, found.key,
                      [c \in {"comment_data:body", "metrics:score"} |->
                          IF c = "metrics:score" THEN Str(new_comment_score)
                          ELSE new_text])
             ELSE comments
        /\ ret' = [op |-> "update_comment", status |-> found.status,
                   id |-> update_comment_id, row_key |-> found.key,
                   new_text |-> new_text]
        /\ UNCHANGED posts

\* Delete Comment: submit with a selected id; nothing happens unconfirmed
delete_comment(delete_comment_id, confirm_comment_delete) ==
    LET posts_df == to_dataframe(posts, "posts")
        comments_df == to_dataframe(comments, "comments")
        found == first_row_key(comments_df, posts_df, "comment_data:id",
                               delete_comment_id)
    IN  /\ delete_comment_id \in comment_ids(comments_df)
        /\ comments' = IF confirm_comment_delete /\ found.status = "ok"
                       THEN Delete(comments, found.key) ELSE comments
        /\ ret' = [op |-> "delete_comment",
                   status |-> IF confirm_comment_delete THEN found.status
                              ELSE "not confirmed",
                   id |-> delete_comment_id,
                   confirm |-> confirm_comment_delete]
        /\ UNCHANGED posts

(***************************************************************************)
(* SpecAdmin: the store written directly and through the admin page, read  *)
(* by to_dataframe and the analytics methods under each store condition.   *)
(* One comment id arrives under two post ids.                              *)
(***************************************************************************)
AdminPostInputs ==
    {PostDict(id, "alice", 1, "python", "hello", 0, 1) : id \in {"p1", "p2"}}

AdminCommentInputs ==
    {CommentDict("c1", "p1", "alice", "t3_p1", 2, "great news"),
     CommentDict("c1", "p2", "alice", "t3_p2", 2, "great news"),
     CommentDict("c2", "p2", "[deleted]", "t3_p2", 2, "hello")}

CommentIdInputs == {AllCommentIds[i] : i \in 1..Len(AllCommentIds)}
NewTexts == {"terrible"}
NewScores == {0}

InitAdmin ==
    /\ posts = <<>>
    /\ comments = <<>>
    /\ ret = NoCall

NextAdmin ==
    \/ \E post \in AdminPostInputs : store_post(post)
    \/ \E comment \in AdminCommentInputs :
          store_comment(comment, comment["post_id"])
    \/ \E id \in CommentIdInputs, new_text \in NewTexts,
          new_comment_score \in NewScores :
          update_comment(id, new_text, new_comment_score)
    \/ \E id \in CommentIdInputs, confirm \in BOOLEAN :
          delete_comment(id, confirm)
    \/ \E table_name \in TableNames, store \in StoreStates :
          to_dataframe_call(table_name, store)
    \/ \E method \in Methods, store \in StoreStates :
          analytics_method(method, store)

SpecAdmin == InitAdmin /\ [][NextAdmin]_vars

(***************************************************************************)
(* SpecDashboard: the dashboard script, fetch_and_store_data and main,     *)
(* over every combination of given inputs and over listings in which any   *)
(* step of the work on a post may raise.                                   *)
(***************************************************************************)
SubredditNames == {"", "python"}
Queries == {"", "python programming"}
PostIdInputs == {"", "p1"}

FetchedPost(id) == PostDict(id, "alice", 1, "python", "hello", 0, 1)

FetchedComments(id) ==
    IF id = "p1"
    THEN <<CommentDict("c1", "p1", "alice", "t3_p1", 2, "great news"),
           CommentDict("c3", "p1", "[deleted]", "t3_p1", 2, "hello")>>
    ELSE <<CommentDict("c2", "p2", "alice", "t3_p2", 2, "terrible")>>

Items(id) ==
    {[post |-> FetchedPost(id), comments |-> FetchedComments(id),
      comments_fail |-> k, store_post_raises |-> FALSE] :
        k \in 0..(Len(FetchedComments(id)) + 1)}
    \cup {[post |-> FetchedPost(id), comments |-> FetchedComments(id),
           comments_fail |-> 0, store_post_raises |-> TRUE]}

\* an item on which nothing raises
Clean(id) ==
    [post |-> FetchedPost(id), comments |-> FetchedComments(id),
     comments_fail |-> 0, store_post_raises |-> FALSE]

Feeds ==
    {<<>>} \cup {<<a>> : a \in Items("p1") \cup Items("p2")}
    \cup {<<a, b>> : a \in Items("p1"), b \in Items("p2")}
    \cup {<<b, Clean("p1")>> : b \in Items("p2")}

ListingErrors == {"NotFound", "Forbidden", "Exception"}

Listings ==
    {[error |-> "", posts |-> feed] : feed \in Feeds}
    \cup {[error |-> e, posts |-> <<>>] : e \in ListingErrors}

\* the listings main is run with
MainListings ==
    {[error |-> "NotFound", posts |-> <<>>], [error |-> "", posts |-> <<>>],
     [error |-> "", posts |-> <<Clean("p1")>>],
     [error |-> "", posts |-> <<Clean("p2"), Clean("p1")>>]}
    \cup {[error |-> "", posts |-> <<a>>] :
             a \in {b \in Items("p2") : b.store_post_raises}}

InitDashboard ==
    /\ posts = <<>>
    /\ comments = <<>>
    /\ ret = NoCall

NextDashboard ==
    \/ \E subreddit_name \in SubredditNames, query \in Queries,
          post_id \in PostIdInputs, listing \in Listings :
          fetch_and_store_data(subreddit_name, query, post_id, listing)
    \/ \E input_type \in InputTypes, text \in SubredditNames,
          run_button \in BOOLEAN, listing \in MainListings,
          failure \in MainFailures :
          main(input_type, text, run_button, listing, failure)

SpecDashboard == InitDashboard /\ [][NextDashboard]_vars

(***************************************************************************)
(* Claims about loading, storing, the dashboard and the admin page.        *)
(***************************************************************************)
\* C21: loading a dataset whose table is missing or has zero rows never
\* raises; to_dataframe returns an empty corpus in both cases.
C21_MissingOrEmptyTableLoadsEmpty ==
    (/\ ret.op = "to_dataframe"
     /\ \/ ret.store = "no_table"
        \/ ret.store = "up" /\ Table(ret.table_name) = <<>>)
    => (ret.status = "ok" /\ ret.value = <<>>)

\* C22: when the store cannot be reached during a load, the analytics method
\* ends with the store's exception; its caller gets no result, neither a
\* default nor one computed from part of the data.
C22_UnreachableStoreIsAHardFailure ==
    (ret.op \in Methods /\ ret.store = "down")
    => (/\ ret.status = "TTransportException"
        /\ DOMAIN ret = {"op", "store", "status"})

C22_Witness ==
    /\ ret.op \in Methods
    /\ ret.store = "down"
    /\ ret.status # "ok"
    /\ posts # <<>>
    /\ comments # <<>>

\* what the method and arguments of ret return over the tables as they are now
ResultNow ==
    LET posts_df == to_dataframe(posts, "posts")
        comments_df == to_dataframe(comments, "comments")
    IN  CASE ret.op = "get_top_subreddits" ->
               top_values_result(posts_df, "post_data:subreddit", ret.limit)
          [] ret.op = "get_top_authors" ->
               top_values_result(posts_df, "post_data:author", ret.limit)
          [] ret.op = "get_engagement_metrics" ->
               get_engagement_metrics_result(posts_df)
          [] ret.op = "get_sentiment_trends" ->
               get_sentiment_trends_result(posts_df, comments_df)
          [] ret.op = "get_topics" -> get_topics_result(posts_df, ret.num_topics)
          [] ret.op = "get_user_influence" ->
               get_user_influence_result(posts_df, comments_df, ret.limit)
          [] OTHER -> get_temporal_trends_result(posts_df)

OneRecordPerId(table, id_col) ==
    \A k1, k2 \in DOMAIN table :
        (/\ HasCell(table[k1], id_col)
         /\ HasCell(table[k2], id_col)
         /\ table[k1][id_col] = table[k2][id_col]) => k1 = k2

\* C24: after any sequence of store_post and store_comment, the same post or
\* comment stored again and a comment id stored under different post ids
\* included, each dataset holds at most one record per id.
C24_AtMostOneRecordPerId ==
    /\ OneRecordPerId(posts, "post_data:id")
    /\ OneRecordPerId(comments, "comment_data:id")

IsFetchCall == ret.op = "fetch_and_store_data"

\* how many of the three inputs the call recorded in r was given
GivenCount(r) ==
    Cardinality({f \in {"subreddit_name", "query", "post_id"} : r[f] # ""})

\* the posts the source yields to the call, in the order it yields them
Fetched == ret.listing.posts

\* the source answers the call with at least one post, and the store takes
\* every post
SourceYieldsPosts ==
    /\ ret.listing.error = ""
    /\ Len(Fetched) >= 1
    /\ \A i \in 1..Len(Fetched) : ~Fetched[i].store_post_raises

\* the row of post is in the posts table as store_post writes it
PostIsStored(post) ==
    /\ PostRowKey(post["id"]) \in DOMAIN posts
    /\ \A c \in DOMAIN PostData(post) :
          posts[PostRowKey(post["id"])][c] = PostData(post)[c]

\* C25: for each of the three input kinds (subreddit name, search query,
\* post ID), when exactly that one input is given and the source yields at
\* least one post, fetch_and_store_data stores every fetched post and
\* returns True.
C25_OneInputAndPostsGivesTrueAndAllStored ==
    (IsFetchCall /\ GivenCount(ret) = 1 /\ SourceYieldsPosts)
    => (/\ ret.value = TRUE
        /\ \A i \in 1..Len(Fetched) : PostIsStored(Fetched[i].post))

\* C26: fetch_and_store_data called with none, or with more than one, of
\* subreddit_name / query / post_id returns False, makes no call to the
\* content API and writes no post and no comment.
C26_NotExactlyOneInputDoesNothing ==
    [][(ret'.op = "fetch_and_store_data" /\ GivenCount(ret') # 1)
       => (/\ ret'.value = FALSE
           /\ ret'.calls = <<>>
           /\ posts' = posts
           /\ comments' = comments)]_vars

C26_Witness ==
    /\ IsFetchCall
    /\ GivenCount(ret) > 1
    /\ ret.listing.error = ""
    /\ Len(Fetched) > 1
    /\ ret.value = FALSE
    /\ posts # <<>>

\* the positions of call in the log of ret
Positions(call) == {n \in 1..Len(ret.calls) : ret.calls[n] = call}

\* the calls of the log that store a post
IsStorePost(call) == call[1] = "store_post"

\* C27: posts are processed in fetched order and each post is stored before
\* any of its comments is fetched or stored; a failure while fetching or
\* storing the comments of one post leaves that post stored, keeps no later
\* post from being stored, and the function still returns True.
C27_PostsInOrderAndCommentFailuresSkipped ==
    (/\ IsFetchCall
     /\ GivenCount(ret) = 1
     /\ ret.post_id = ""
     /\ SourceYieldsPosts)
    => (/\ SelectSeq(ret.calls, IsStorePost)
             = [i \in 1..Len(Fetched) |-> <<"store_post", Fetched[i].post["id"]>>]
        /\ \A i \in 1..Len(Fetched) :
              LET id == Fetched[i].post["id"]
                  after ==
                      Positions(<<"get_post_comments", id>>)
                      \cup UNION {Positions(<<"store_comment",
                                             Fetched[i].comments[j]["id"]>>) :
                                     j \in 1..Len(Fetched[i].comments)}
              IN  /\ PostIsStored(Fetched[i].post)
                  /\ \A n \in after :
                        \E m \in Positions(<<"store_post", id>>) : m < n
        /\ ret.value = TRUE)

C27_Witness ==
    /\ IsFetchCall
    /\ GivenCount(ret) = 1
    /\ ret.post_id = ""
    /\ SourceYieldsPosts
    /\ Len(Fetched) > 1
    /\ Fetched[1].comments_fail > 1
    /\ Fetched[1].comments_fail <= Len(Fetched[1].comments)
    /\ PostIsStored(Fetched[Len(Fetched)].post)
    /\ ret.value = TRUE

\* C28: every connection to the store that main() opens is closed before
\* main() returns, on every path, and analysis and display run only after
\* fetch_and_store_data returned True.
C28_EveryOpenedConnectionIsClosed ==
    ret.op = "main" =>
        /\ ret.closed = ret.opened
        /\ ret.analysed => ret.fetch = "True"

\* the rows of the comments table whose comment id is id
CommentRowsOf(id) ==
    {k \in DOMAIN comments :
        HasCell(comments[k], "comment_data:id") /\ comments[k]["comment_data:id"] = id}

\* C29: the admin page's Delete Comment, submitted with a selected comment
\* id and the confirmation ticked, removes that comment's row from the
\* comments dataset and leaves every other comment and every post as it was.
C29_ConfirmedDeleteRemovesTheCommentRow ==
    [][(ret'.op = "delete_comment" /\ ret'.confirm)
       => (/\ \E k \in CommentRowsOf(ret'.id) : comments' = Delete(comments, k)
           /\ posts' = posts)]_vars

\* C30: after the admin page updates the text of a comment, analysis reads
\* the new text: the row holds it in the column that store_comment writes
\* and get_sentiment_trends classifies.
C30_UpdatedTextIsTheTextAnalysisReads ==
    (ret.op = "update_comment" /\ ret.status = "ok")
    => LET comments_df == to_dataframe(comments, "comments")
       IN  \A i \in 1..Len(comments_df) :
              comments_df[i]["row_key"] = ret.row_key
              => Cell(comments_df, i, "comment_data:text") = ret.new_text

====
